---- MODULE Spec2Model ----
(***************************************************************************)
(* Model of src/src/tailscale.rs: resolve_tailscale_info() runs            *)
(* `tailscale status --json`, checks its exit status and hands its stdout  *)
(* to parse_tailscale_status_json(), which decodes the status document,    *)
(* requires the Self node and at least one address, sorts and dedups the   *)
(* addresses and normalises the DNS name.                                  *)
(*                                                                         *)
(* Byte strings are sequences of "bytes".  A byte is a record              *)
(* [ch, doc]: a plain character, or one chunk "{}" that stands for the     *)
(* JSON text of a whole status document (the document is kept in doc).     *)
(***************************************************************************)
EXTENDS Naturals, Sequences, FiniteSets

VARIABLES pc, entry, spawns, spawn_result, child, output, raw_json, status,
          result, steps

vars == <<pc, entry, spawns, spawn_result, child, output, raw_json, status,
          result, steps>>

-----------------------------------------------------------------------------
(* Bounds of the model *)

MaxIps == 3
MaxDns == 3
MaxText == 2
NumCallers == 2

-----------------------------------------------------------------------------
(* Sequences *)

RECURSIVE SeqsUpTo(_, _)
SeqsUpTo(S, n) ==
    IF n = 0 THEN {<<>>}
    ELSE LET shorter == SeqsUpTo(S, n - 1)
         IN  shorter \cup {Append(s, x) : s \in {t \in shorter : Len(t) = n - 1}, x \in S}

Last(s) == s[Len(s)]
Front(s) == SubSeq(s, 1, Len(s) - 1)
Range(s) == {s[i] : i \in 1..Len(s)}

-----------------------------------------------------------------------------
(* IP addresses: std::net::IpAddr, an enum V4 | V6 with the derived order *)

V4(n) == [fam |-> 4, val |-> n]
V6(n) == [fam |-> 6, val |-> n]

(* Address strings of a document: the text of a V4 or V6 address in one of  *)
(* its spellings (::1 and 0:0:0:0:0:0:0:1 are one address), or no address.  *)
IpString(fam, n, spelling) == [fam |-> fam, val |-> n, spelling |-> spelling]

IpStrings == {IpString(4, 1, 0), IpString(4, 2, 0), IpString(6, 1, 0),
              IpString(6, 1, 1), IpString(0, 0, 0)}

IsIpAddr(s) == s.fam \in {4, 6}

IpAddr_from_str(s) == [fam |-> s.fam, val |-> s.val]

IpLess(a, b) == a.fam < b.fam \/ (a.fam = b.fam /\ a.val < b.val)

RECURSIVE insert(_, _)
insert(s, x) ==
    IF s = <<>> THEN <<x>>
    ELSE IF IpLess(x, Last(s)) THEN Append(insert(Front(s), x), Last(s))
    ELSE Append(s, x)

RECURSIVE sort_rec(_)
sort_rec(s) == IF s = <<>> THEN <<>> ELSE insert(sort_rec(Front(s)), Last(s))

sort_noop(s) == s

sort(s) == sort_rec(s)

RECURSIVE dedup_rec(_)
dedup_rec(s) ==
    IF Len(s) <= 1 THEN s
    ELSE IF Last(s) = s[Len(s) - 1] THEN dedup_rec(Front(s))
    ELSE Append(dedup_rec(Front(s)), Last(s))

dedup(s) == dedup_rec(s)

-----------------------------------------------------------------------------
(* Status documents: the JSON shapes serde can be handed *)

NoDoc == [self |-> "none", ipsKind |-> "absent", ips |-> <<>>,
          dnsKind |-> "absent", dns |-> <<>>, other |-> FALSE]

DnsChars == {"h", ".", " "}

DocsWithoutSelf ==
    {[NoDoc EXCEPT !.self = k, !.other = o] :
        k \in {"absent", "null", "badtype"}, o \in BOOLEAN}

DocsUpTo(nIps, nDns) ==
    LET ipsOpts == {[k |-> "absent", v |-> <<>>], [k |-> "null", v |-> <<>>]}
                   \cup {[k |-> "list", v |-> l] : l \in SeqsUpTo(IpStrings, nIps)}
        dnsOpts == {[k |-> "absent", v |-> <<>>], [k |-> "null", v |-> <<>>],
                    [k |-> "badtype", v |-> <<>>]}
                   \cup {[k |-> "str", v |-> d] : d \in SeqsUpTo(DnsChars, nDns)}
    IN  DocsWithoutSelf
        \cup {[self |-> "node", ipsKind |-> i.k, ips |-> i.v,
               dnsKind |-> d.k, dns |-> d.v, other |-> o] :
                 i \in ipsOpts, d \in dnsOpts, o \in BOOLEAN}

Docs == DocsUpTo(MaxIps, MaxDns)
SmallDocs == DocsUpTo(1, 1)

-----------------------------------------------------------------------------
(* Byte strings *)

Ch(c) == [ch |-> c, doc |-> NoDoc]
Json(d) == [ch |-> "{}", doc |-> d]

TextChars == {"e", " ", "xFF"}
Texts == SeqsUpTo({Ch(c) : c \in TextChars}, MaxText)
Paddings == {<<>>, <<Ch(" ")>>}

Payloads(D) == {<<Json(d)>> : d \in D}
PaddedPayloads(D) == {p \o <<Json(d)>> \o q : p \in Paddings, q \in Paddings, d \in D}

from_utf8_lossy(bytes) ==
    [i \in 1..Len(bytes) |->
        IF bytes[i].ch = "xFF" THEN Ch("U+FFFD") ELSE bytes[i]]

IsWhitespace(b) == b.ch \in {" ", "\t", "\n", "\r", "x0B", "x0C"}
IsJsonWhitespace(b) == b.ch \in {" ", "\t", "\n", "\r"}

RECURSIVE trim_start(_)
trim_start(s) ==
    IF s # <<>> /\ IsWhitespace(Head(s)) THEN trim_start(Tail(s)) ELSE s

RECURSIVE trim_end(_)
trim_end(s) ==
    IF s # <<>> /\ IsWhitespace(Last(s)) THEN trim_end(Front(s)) ELSE s

trim(s) == trim_end(trim_start(s))

RECURSIVE skip_json_ws_start(_)
skip_json_ws_start(s) ==
    IF s # <<>> /\ IsJsonWhitespace(Head(s)) THEN skip_json_ws_start(Tail(s)) ELSE s

RECURSIVE skip_json_ws_end(_)
skip_json_ws_end(s) ==
    IF s # <<>> /\ IsJsonWhitespace(Last(s)) THEN skip_json_ws_end(Front(s)) ELSE s


-----------------------------------------------------------------------------
(* Decoding: serde_json::from_slice into TailscaleStatus / TailscaleNode *)

None == [some |-> FALSE, val |-> <<>>]
Some(v) == [some |-> TRUE, val |-> v]

NoStatus == [self_some |-> FALSE, tailscale_ips |-> <<>>, dns_name |-> None]

self_node_defaulted(d) == TRUE

self_node_present(d) == d.self = "node"

ips_field_required(d) == d.ipsKind = "list"

ips_field_ok(d) == d.ipsKind \in {"absent", "list"}

TailscaleNode_ok(d) ==
    /\ ips_field_ok(d)
    /\ \A i \in 1..Len(d.ips) : IsIpAddr(d.ips[i])
    /\ d.dnsKind # "badtype"

TailscaleStatus_ok(d) ==
    \/ d.self \in {"absent", "null"}
    \/ d.self = "node" /\ TailscaleNode_ok(d)

TailscaleStatus(d) ==
    [self_some |-> self_node_present(d),
     tailscale_ips |-> [i \in 1..Len(d.ips) |-> IpAddr_from_str(d.ips[i])],
     dns_name |-> IF d.dnsKind = "str" THEN Some(d.dns) ELSE None]

from_slice_ok(raw) ==
    LET body == skip_json_ws_end(skip_json_ws_start(raw))
    IN  Len(body) = 1 /\ body[1].ch = "{}" /\ TailscaleStatus_ok(body[1].doc)

from_slice(raw) ==
    TailscaleStatus(skip_json_ws_end(skip_json_ws_start(raw))[1].doc)

-----------------------------------------------------------------------------
(* Results: Ok(TailscaleInfo) or one of the six errors *)

Err(kind, details) ==
    [ok |-> FALSE, kind |-> kind, details |-> details, ips |-> <<>>, dns_name |-> None]

Ok(ips, dns_name) ==
    [ok |-> TRUE, kind |-> "Ok", details |-> <<>>, ips |-> ips, dns_name |-> dns_name]

NoResult == [ok |-> FALSE, kind |-> "pending", details |-> <<>>, ips |-> <<>>,
             dns_name |-> None]

Fallback == <<Ch("tailscale returned a non-zero exit code")>>

details_stdout_first(stderr_bytes, stdout_bytes) ==
    LET stderr == trim(from_utf8_lossy(stderr_bytes))
        stdout == trim(from_utf8_lossy(stdout_bytes))
    IN  IF stdout # <<>> THEN stdout
        ELSE IF stderr # <<>> THEN stderr
        ELSE Fallback

details(stderr_bytes, stdout_bytes) ==
    LET stderr == trim(from_utf8_lossy(stderr_bytes))
        stdout == trim(from_utf8_lossy(stdout_bytes))
    IN  IF stderr # <<>> THEN stderr
        ELSE IF stdout # <<>> THEN stdout
        ELSE Fallback

success_always(code) == TRUE

success(code) == code = 0

spawn_error_unclassified(kind) == "SpawnError"

spawn_error(kind) == IF kind = "NotFound" THEN "ToolNotFound" ELSE "SpawnError"

is_empty_never(ips) == FALSE

is_empty(ips) == ips = <<>>

RECURSIVE trim_end_matches_dot(_)
trim_end_matches_dot(name) ==
    IF name # <<>> /\ Last(name) = "." THEN trim_end_matches_dot(Front(name)) ELSE name

strip_one_dot(name) ==
    IF name # <<>> /\ Last(name) = "." THEN Front(name) ELSE name

normalize_dns_name_one_dot(dns_name) ==
    IF dns_name.some /\ strip_one_dot(dns_name.val) # <<>>
    THEN Some(strip_one_dot(dns_name.val))
    ELSE None

normalize_dns_name(dns_name) ==
    IF dns_name.some /\ trim_end_matches_dot(dns_name.val) # <<>>
    THEN Some(trim_end_matches_dot(dns_name.val))
    ELSE None


-----------------------------------------------------------------------------
(* The process run by Command::output() *)

NoChild == [state |-> "none", status |-> 0, stdout |-> <<>>, stderr |-> <<>>]
NoOutput == [status |-> 0, stdout |-> <<>>, stderr |-> <<>>]

ExitCodes == {0, 1}
SpawnResults == {"Ok", "NotFound", "PermissionDenied"}

ProcessOutputs(Stdouts, Stderrs) ==
    [status : ExitCodes, stdout : Stdouts, stderr : Stderrs]

AnyChildOutput(c) == [status |-> child[1].status, stdout |-> child[1].stdout,
                      stderr |-> child[1].stderr]

ChildOutput(c) == [status |-> child[c].status, stdout |-> child[c].stdout,
                   stderr |-> child[c].stderr]

retry_after_spawn_failure == "idle"

after_spawn_failure == "done"

-----------------------------------------------------------------------------
(* State machine: one record of each variable per caller *)

InitFor(Callers) ==
    /\ pc = [c \in Callers |-> "idle"]
    /\ entry = [c \in Callers |-> "none"]
    /\ spawns = [c \in Callers |-> 0]
    /\ spawn_result = [c \in Callers |-> "none"]
    /\ child = [c \in Callers |-> NoChild]
    /\ output = [c \in Callers |-> NoOutput]
    /\ raw_json = [c \in Callers |-> <<>>]
    /\ status = [c \in Callers |-> NoStatus]
    /\ result = [c \in Callers |-> NoResult]
    /\ steps = [c \in Callers |-> <<>>]

(* resolve_tailscale_info, lines 29-42: Command::output() starts the process *)
Spawn(c) ==
    /\ pc[c] = "idle"
    /\ entry' = [entry EXCEPT ![c] = "resolve"]
    /\ spawns' = [spawns EXCEPT ![c] = @ + 1]
    /\ steps' = [steps EXCEPT ![c] = Append(@, "spawn")]
    /\ \E r \in SpawnResults :
          /\ spawn_result' = [spawn_result EXCEPT ![c] = r]
          /\ IF r = "Ok"
             THEN /\ child' = [child EXCEPT ![c] = [NoChild EXCEPT !.state = "running"]]
                  /\ pc' = [pc EXCEPT ![c] = "wait"]
                  /\ UNCHANGED result
             ELSE /\ result' = [result EXCEPT ![c] = Err(spawn_error(r), <<>>)]
                  /\ pc' = [pc EXCEPT ![c] = after_spawn_failure]
                  /\ UNCHANGED child
    /\ UNCHANGED <<output, raw_json, status>>

(* the spawned process writes its streams and exits *)
ChildExit(c, Outs) ==
    /\ child[c].state = "running"
    /\ \E o \in Outs :
          child' = [child EXCEPT ![c] = [state |-> "exited", status |-> o.status,
                                         stdout |-> o.stdout, stderr |-> o.stderr]]
    /\ UNCHANGED <<pc, entry, spawns, spawn_result, output, raw_json, status,
                   result, steps>>

(* Command::output() returns once the process has exited and its pipes are drained *)
WaitOutput(c) ==
    /\ pc[c] = "wait"
    /\ child[c].state = "exited"
    /\ output' = [output EXCEPT ![c] = ChildOutput(c)]
    /\ child' = [child EXCEPT ![c].state = "reaped"]
    /\ pc' = [pc EXCEPT ![c] = "status"]
    /\ steps' = [steps EXCEPT ![c] = Append(@, "wait")]
    /\ UNCHANGED <<entry, spawns, spawn_result, raw_json, status, result>>

(* resolve_tailscale_info, lines 44-57 *)
CheckStatus(c) ==
    /\ pc[c] = "status"
    /\ steps' = [steps EXCEPT ![c] = Append(@, "status")]
    /\ IF ~success(output[c].status)
       THEN /\ result' = [result EXCEPT ![c] =
                            Err("ToolReportedFailure",
                                details(output[c].stderr, output[c].stdout))]
            /\ pc' = [pc EXCEPT ![c] = "done"]
            /\ UNCHANGED raw_json
       ELSE /\ raw_json' = [raw_json EXCEPT ![c] = output[c].stdout]
            /\ pc' = [pc EXCEPT ![c] = "decode"]
            /\ UNCHANGED result
    /\ UNCHANGED <<entry, spawns, spawn_result, child, output, status>>

(* a direct call of parse_tailscale_status_json with literal bytes *)
ParseCall(c, Raws) ==
    /\ pc[c] = "idle"
    /\ entry' = [entry EXCEPT ![c] = "parse"]
    /\ \E raw \in Raws : raw_json' = [raw_json EXCEPT ![c] = raw]
    /\ pc' = [pc EXCEPT ![c] = "decode"]
    /\ UNCHANGED <<spawns, spawn_result, child, output, status, result, steps>>

(* parse_tailscale_status_json, lines 61-62 *)
Decode(c) ==
    /\ pc[c] = "decode"
    /\ steps' = [steps EXCEPT ![c] = Append(@, "decode")]
    /\ IF from_slice_ok(raw_json[c])
       THEN /\ status' = [status EXCEPT ![c] = from_slice(raw_json[c])]
            /\ pc' = [pc EXCEPT ![c] = "self"]
            /\ UNCHANGED result
       ELSE /\ result' = [result EXCEPT ![c] = Err("DecodeError", <<>>)]
            /\ pc' = [pc EXCEPT ![c] = "done"]
            /\ UNCHANGED status
    /\ UNCHANGED <<entry, spawns, spawn_result, child, output, raw_json>>

(* parse_tailscale_status_json, lines 64-66 *)
CheckSelf(c) ==
    /\ pc[c] = "self"
    /\ steps' = [steps EXCEPT ![c] = Append(@, "self")]
    /\ IF status[c].self_some
       THEN /\ pc' = [pc EXCEPT ![c] = "ips"]
            /\ UNCHANGED result
       ELSE /\ result' = [result EXCEPT ![c] = Err("MissingSelfNode", <<>>)]
            /\ pc' = [pc EXCEPT ![c] = "done"]
    /\ UNCHANGED <<entry, spawns, spawn_result, child, output, raw_json, status>>

(* parse_tailscale_status_json, lines 68-81 *)
CheckIps(c) ==
    /\ pc[c] = "ips"
    /\ steps' = [steps EXCEPT ![c] = Append(@, "ips")]
    /\ IF is_empty(status[c].tailscale_ips)
       THEN result' = [result EXCEPT ![c] = Err("NoAddressesFound", <<>>)]
       ELSE result' = [result EXCEPT ![c] =
                         Ok(dedup(sort(status[c].tailscale_ips)),
                            normalize_dns_name(status[c].dns_name))]
    /\ pc' = [pc EXCEPT ![c] = "done"]
    /\ UNCHANGED <<entry, spawns, spawn_result, child, output, raw_json, status>>

Stdouts == Texts \cup PaddedPayloads(SmallDocs)

Init == InitFor({1})

Next ==
    \E c \in DOMAIN pc :
        \/ Spawn(c)
        \/ ChildExit(c, ProcessOutputs(Stdouts, Texts))
        \/ WaitOutput(c)
        \/ CheckStatus(c)
        \/ ParseCall(c, Texts \cup Payloads(Docs))
        \/ Decode(c)
        \/ CheckSelf(c)
        \/ CheckIps(c)

Spec == Init /\ [][Next]_vars


(* Several callers running resolve_tailscale_info and the parser at once *)

ConcDocs == {[NoDoc EXCEPT !.self = "absent"],
             [NoDoc EXCEPT !.self = "node", !.ipsKind = "list",
                           !.ips = <<IpString(4, 1, 0)>>]}
ConcStdouts == {<<>>, <<Ch("e")>>} \cup Payloads(ConcDocs)
ConcStderrs == {<<>>, <<Ch("e")>>}

InitConc == InitFor(1..NumCallers)

NextConc ==
    \E c \in DOMAIN pc :
        \/ Spawn(c)
        \/ ChildExit(c, ProcessOutputs(ConcStdouts, ConcStderrs))
        \/ WaitOutput(c)
        \/ CheckStatus(c)
        \/ ParseCall(c, ConcStdouts)
        \/ Decode(c)
        \/ CheckSelf(c)
        \/ CheckIps(c)

SpecConc == InitConc /\ [][NextConc]_vars

-----------------------------------------------------------------------------
(* Properties *)

Callers == DOMAIN pc
Done(c) == pc[c] = "done"
Resolved(c) == Done(c) /\ entry[c] = "resolve"
Ran(c) == Resolved(c) /\ spawn_result[c] = "Ok"

(* the document a payload carries, when it is one document and JSON blanks *)
Blank(b) == b.ch \in {" ", "\t", "\n", "\r"}
DocIndexes(raw) == {i \in 1..Len(raw) : ~Blank(raw[i])}
CarriesDoc(raw) ==
    /\ Cardinality(DocIndexes(raw)) = 1
    /\ \A i \in DocIndexes(raw) : raw[i].ch = "{}"
DocOf(raw) == raw[CHOOSE i \in DocIndexes(raw) : TRUE].doc

(* a string without its leading and trailing whitespace, by positions *)
Inked(s) == {i \in 1..Len(s) : ~IsWhitespace(s[i])}
Stripped(s) ==
    IF Inked(s) = {} THEN <<>>
    ELSE SubSeq(s, CHOOSE i \in Inked(s) : \A j \in Inked(s) : i <= j,
                   CHOOSE i \in Inked(s) : \A j \in Inked(s) : i >= j)

WellTypedNode(d) ==
    /\ d.self = "node"
    /\ d.ipsKind \in {"absent", "list"}
    /\ \A i \in 1..Len(d.ips) : d.ips[i].fam \in {4, 6}
    /\ d.dnsKind \in {"absent", "null", "str"}

AddressesOf(d) == {[fam |-> d.ips[i].fam, val |-> d.ips[i].val] : i \in 1..Len(d.ips)}

CanonicalBefore(a, b) == a.fam < b.fam \/ (a.fam = b.fam /\ a.val < b.val)

(* C1: after a non-zero exit resolve() fails with ToolReportedFailure whose    *)
(* detail is the trimmed stderr if that is non-empty, else the trimmed stdout  *)
(* if that is non-empty, else the generic fallback message.                    *)
C1_DetailPrecedence ==
    \A c \in Callers :
        Ran(c) /\ child[c].status # 0 =>
            LET err == Stripped(from_utf8_lossy(child[c].stderr))
                out == Stripped(from_utf8_lossy(child[c].stdout))
            IN  /\ ~result[c].ok
                /\ result[c].kind = "ToolReportedFailure"
                /\ err # <<>> => result[c].details = err
                /\ err = <<>> /\ out # <<>> => result[c].details = out
                /\ err = <<>> /\ out = <<>> => result[c].details = Fallback

C1_Witness ==
    \E c \in Callers :
        /\ Ran(c) /\ child[c].status # 0
        /\ child[c].stderr = <<Ch(" ")>>
        /\ child[c].stdout = <<Ch(" "), Ch("e")>>
        /\ result[c].details = <<Ch("e")>>

(* C2: a Self node with a non-empty list of addresses gives a successful      *)
(* result holding exactly the distinct input addresses, each once, strictly   *)
(* ascending with every IPv4 address before every IPv6 address.               *)
C2_SortedDistinct ==
    \A c \in Callers :
        Done(c) /\ CarriesDoc(raw_json[c]) /\ WellTypedNode(DocOf(raw_json[c]))
                /\ DocOf(raw_json[c]).ips # <<>> =>
            LET in == AddressesOf(DocOf(raw_json[c]))
                ips == result[c].ips
            IN  /\ result[c].ok
                /\ Range(ips) = in
                /\ Len(ips) = Cardinality(in)
                /\ \A i, j \in 1..Len(ips) : i < j => CanonicalBefore(ips[i], ips[j])
                /\ \A i, j \in 1..Len(ips) :
                      ips[i].fam = 4 /\ ips[j].fam = 6 => i < j

C2_Witness ==
    \E c \in Callers :
        /\ Done(c) /\ CarriesDoc(raw_json[c])
        /\ DocOf(raw_json[c]).ips =
              <<IpString(6, 1, 0), IpString(4, 2, 0), IpString(6, 1, 1)>>
        /\ result[c].ok
        /\ result[c].ips = <<V4(2), V6(1)>>

(* C3: a successful result of resolve() or of the parser never has an empty   *)
(* address list.                                                              *)
C3_NonEmptyOnSuccess ==
    \A c \in Callers : result[c].ok => Len(result[c].ips) >= 1

C3_Witness ==
    \E c \in Callers : Ran(c) /\ result[c].ok /\ Len(result[c].ips) >= 1

(* C4 as stated: the DNS name loses at most one trailing '.' and is then      *)
(* trimmed of surrounding whitespace; an empty outcome is an absent name.     *)
DnsBlank(ch) == ch = " "
DnsInked(n) == {i \in 1..Len(n) : ~DnsBlank(n[i])}
DnsStripped(n) ==
    IF DnsInked(n) = {} THEN <<>>
    ELSE SubSeq(n, CHOOSE i \in DnsInked(n) : \A j \in DnsInked(n) : i <= j,
                   CHOOSE i \in DnsInked(n) : \A j \in DnsInked(n) : i >= j)
OneDotThenTrim(n) ==
    DnsStripped(IF n # <<>> /\ n[Len(n)] = "." THEN SubSeq(n, 1, Len(n) - 1) ELSE n)

C4_OneDotThenTrim ==
    \A c \in Callers :
        Done(c) /\ result[c].ok /\ DocOf(raw_json[c]).dnsKind = "str" =>
            LET n == OneDotThenTrim(DocOf(raw_json[c]).dns)
            IN  IF n = <<>> THEN ~result[c].dns_name.some
                ELSE result[c].dns_name.some /\ result[c].dns_name.val = n

(* C4, amended: the DNS name loses all of its trailing '.' characters and     *)
(* nothing else (whitespace is kept); an empty outcome is an absent name, and *)
(* an absent or null DNSName is an absent name.                               *)
C4_AllTrailingDots ==
    \A c \in Callers :
        Done(c) /\ result[c].ok =>
            LET d == DocOf(raw_json[c])
                r == result[c].dns_name
            IN  IF d.dnsKind = "str"
                THEN /\ r.some =>
                          /\ r.val # <<>>
                          /\ r.val[Len(r.val)] # "."
                          /\ Len(r.val) <= Len(d.dns)
                          /\ r.val = SubSeq(d.dns, 1, Len(r.val))
                          /\ \A i \in (Len(r.val) + 1)..Len(d.dns) : d.dns[i] = "."
                     /\ ~r.some => \A i \in 1..Len(d.dns) : d.dns[i] = "."
                ELSE ~r.some

C4_Witness ==
    \E c \in Callers :
        /\ Done(c) /\ result[c].ok
        /\ DocOf(raw_json[c]).dnsKind = "str"
        /\ DocOf(raw_json[c]).dns = <<" ", ".", ".">>
        /\ result[c].dns_name = Some(<<" ">>)

(* C5: a document without the top-level Self section fails with               *)
(* MissingSelfNode, whatever else it contains; never a result, never          *)
(* NoAddressesFound.                                                          *)
C5_MissingSelf ==
    \A c \in Callers :
        Done(c) /\ CarriesDoc(raw_json[c]) /\ DocOf(raw_json[c]).self = "absent" =>
            ~result[c].ok /\ result[c].kind = "MissingSelfNode"

C5_Witness ==
    \E c \in Callers :
        /\ Done(c) /\ CarriesDoc(raw_json[c])
        /\ DocOf(raw_json[c]).self = "absent" /\ DocOf(raw_json[c]).other
        /\ result[c].kind = "MissingSelfNode"

(* C6: a Self node whose TailscaleIPs field is absent or an empty list fails  *)
(* with NoAddressesFound, with or without a DNSName; the absent field is not  *)
(* a decode error.                                                            *)
C6_NoAddresses ==
    \A c \in Callers :
        Done(c) /\ CarriesDoc(raw_json[c]) /\ WellTypedNode(DocOf(raw_json[c]))
                /\ DocOf(raw_json[c]).ips = <<>> =>
            ~result[c].ok /\ result[c].kind = "NoAddressesFound"

C6_Witness ==
    \E c \in Callers :
        /\ Done(c) /\ CarriesDoc(raw_json[c])
        /\ DocOf(raw_json[c]).self = "node"
        /\ DocOf(raw_json[c]).ipsKind = "absent"
        /\ DocOf(raw_json[c]).dnsKind = "str" /\ DocOf(raw_json[c]).dns = <<"h">>
        /\ result[c].kind = "NoAddressesFound"

(* C7: a spawn that fails because the binary is not found gives ToolNotFound, *)
(* any other spawn failure gives SpawnError; the call has then returned an    *)
(* error without an exit-status check, decoding or validation.                *)
C7_SpawnFailures ==
    \A c \in Callers :
        entry[c] = "resolve" /\ spawn_result[c] # "Ok" =>
            /\ Done(c)
            /\ ~result[c].ok
            /\ spawn_result[c] = "NotFound" => result[c].kind = "ToolNotFound"
            /\ spawn_result[c] # "NotFound" => result[c].kind = "SpawnError"
            /\ steps[c] = <<"spawn">>
            /\ child[c] = NoChild /\ output[c] = NoOutput /\ status[c] = NoStatus

C7_Witness ==
    \E c \in Callers :
        Resolved(c) /\ spawn_result[c] = "NotFound" /\ result[c].kind = "ToolNotFound"

(* C8: one resolve() call attempts one spawn and no more, and it has returned *)
(* only when its process, if any, has exited and been read in full.           *)
C8_OneSpawnNoRetry ==
    \A c \in Callers :
        /\ spawns[c] <= 1
        /\ entry[c] = "resolve" => spawns[c] = 1
        /\ Resolved(c) =>
              IF spawn_result[c] = "Ok"
              THEN /\ child[c].state = "reaped"
                   /\ output[c].stdout = child[c].stdout
                   /\ output[c].stderr = child[c].stderr
                   /\ output[c].status = child[c].status
              ELSE child[c].state = "none"

C8_Witness ==
    \E c \in Callers : Ran(c) /\ result[c].ok /\ spawns[c] = 1

(* C9: calls are independent: two finished calls whose own processes behaved  *)
(* alike (or that parsed the same bytes) have the same outcome, whatever the  *)
(* other callers did meanwhile.                                               *)
C9_Independent ==
    \A c1, c2 \in Callers :
        /\ Resolved(c1) /\ Resolved(c2) /\ spawn_result[c1] = spawn_result[c2]
           /\ child[c1].status = child[c2].status
           /\ child[c1].stdout = child[c2].stdout
           /\ child[c1].stderr = child[c2].stderr
           => result[c1] = result[c2]
        /\ Done(c1) /\ Done(c2) /\ entry[c1] = "parse" /\ entry[c2] = "parse"
           /\ raw_json[c1] = raw_json[c2]
           => result[c1] = result[c2]

C9_Witness ==
    /\ Cardinality(Callers) >= 2
    /\ \A c \in Callers : Ran(c)
    /\ \E c1, c2 \in Callers :
          /\ child[c1].stdout # child[c2].stdout
          /\ result[c1].ok /\ ~result[c2].ok

(* C10: the exit status is checked before stdout is decoded: success needs a  *)
(* zero exit, a non-zero exit is ToolReportedFailure even over a valid        *)
(* document, and after a zero exit decoding, Self presence and address        *)
(* emptiness are checked in that order, the first failure deciding the error. *)
ResolveOrder == <<"spawn", "wait", "status", "decode", "self", "ips">>

C10_StatusBeforeDecode ==
    \A c \in Callers :
        entry[c] = "resolve" =>
            /\ Len(steps[c]) <= Len(ResolveOrder)
            /\ steps[c] = SubSeq(ResolveOrder, 1, Len(steps[c]))
            /\ result[c].ok => child[c].status = 0 /\ steps[c] = ResolveOrder
            /\ Ran(c) /\ child[c].status # 0 =>
                  /\ result[c].kind = "ToolReportedFailure"
                  /\ steps[c] = <<"spawn", "wait", "status">>
            /\ Ran(c) /\ child[c].status = 0 =>
                  /\ result[c].kind \in
                        {"Ok", "DecodeError", "MissingSelfNode", "NoAddressesFound"}
                  /\ result[c].kind = "DecodeError" =>
                        steps[c][Len(steps[c])] = "decode"
                  /\ result[c].kind = "MissingSelfNode" =>
                        /\ steps[c][Len(steps[c])] = "self"
                        /\ DocOf(child[c].stdout).self \in {"absent", "null"}
                  /\ result[c].kind = "NoAddressesFound" =>
                        /\ steps[c][Len(steps[c])] = "ips"
                        /\ DocOf(child[c].stdout).self = "node"
                  /\ ~CarriesDoc(child[c].stdout) => result[c].kind = "DecodeError"

C10_Witness ==
    \E c \in Callers :
        /\ Ran(c) /\ child[c].status # 0
        /\ CarriesDoc(child[c].stdout)
        /\ WellTypedNode(DocOf(child[c].stdout))
        /\ DocOf(child[c].stdout).ips # <<>>
        /\ child[c].stderr = <<>>
        /\ result[c].kind = "ToolReportedFailure"

====
